---- MODULE Spec2Model ----
(***************************************************************************)
(* Karyx IoT firmware: the sensor variant (firmware/sensor.c) and the      *)
(* switch variant (firmware/switch.c) as one state machine.                *)
(*                                                                         *)
(* variant selects the program.  pc is the position of main(), lpc the     *)
(* position of the switch variant's command_listener_thread.  The signal   *)
(* handler, the console (stdin), the HTTP transport and the wall clock are *)
(* the environment: their inputs are drawn with \E.                        *)
(*                                                                         *)
(* Signals follow glibc's default signal(): the handler stays installed    *)
(* and an interrupted read() is restarted (SA_RESTART), so a signal does   *)
(* not make fgets() return; sleep() returns early when a handler ran.      *)
(***************************************************************************)
EXTENDS Integers, Sequences, FiniteSets, TLC

\* ---- program constants
MAX_CHANNELS == 4
CMD_SIZE == 32
DEFAULT_NUM_CHANNELS == 4

\* ---- bounds of the model
MaxLines == 2
MaxTicks == 1
MaxInterval == 2
MaxCycles == 3

VARIABLES
    variant,        \* "sensor" | "switch": which firmware runs
    pc,             \* position of main()
    lpc,            \* position of command_listener_thread (switch)
    running,        \* static volatile int running
    config,         \* static Config config (the fields the control flow reads)
    switch_state,   \* static SwitchState switch_state
    last_report,    \* static time_t last_report (switch main loop)
    cmd,            \* char cmd[32] of the switch main loop
    channel,        \* int channel of the switch main loop
    cycle,          \* int cycle of the sensor main loop
    i,              \* int i of the sensor's interval sleep loop
    res,            \* CURLcode of the last transport call ("none" before any)
    now,            \* time(NULL)
    nread,          \* console lines consumed so far
    post_calls,     \* POST {panel_url}/devices transport calls made
    put_calls,      \* PUT {panel_url}/devices/{id} transport calls made
    exit_code,      \* process exit status (-1 while the process lives)
    hist,           \* console commands executed so far, as <<verb, channel>>
    mutex,          \* state_mutex: 0 when free, else the thread holding it
    tpc,            \* position of each client thread of the state store
    prog,           \* the calls each client thread makes, in order
    ip,             \* index in prog of the thread's current call
    loc,            \* locals of the thread's current call
    flips,          \* per channel, the value transitions it has undergone
    lastset,        \* per channel, the value of the last set_switch that locked
    wr              \* per channel, the set_switch critical sections entered

vars == << variant, pc, lpc, running, config, switch_state, last_report, cmd,
           channel, cycle, i, res, now, nread, post_calls, put_calls, exit_code,
           hist, mutex, tpc, prog, ip, loc, flips, lastset, wr >>

\* what the whole-program actions leave alone: the command log and the
\* step-by-step view of the state store's client threads
storevars == << hist, mutex, tpc, prog, ip, loc, flips, lastset, wr >>

\* what the state store's actions leave alone: the agent's lifecycle
lifevars == << variant, pc, lpc, running, config, last_report, cmd, channel,
               cycle, i, res, now, nread, post_calls, put_calls, exit_code >>

\* ---- input domains
Chan == 0 .. (MAX_CHANNELS - 1)
DeviceIds == {"", "dev-1"}
RawChannels == {-1, 0, 2, MAX_CHANNELS, MAX_CHANNELS + 1}
Intervals == 0 .. MaxInterval
\* time(NULL) at process start: later than any configured interval
StartTime == MaxInterval + 1
LongVerb == "xxxxxxxxxxxxxxxxxxxxxxxxxxxxxxxxxxxxxxxx"
Verbs == {"on", "off", "toggle", "status", "all_on", "all_off", "help",
          "quit", "exit", "blink", LongVerb}
\* -1: negative; 0, 2: in range when num_channels allows; 99: far outside
Args == {-1, 0, 2, 99}

\* ---- switch.c: the state store

\* C's !x
Not(x) == IF x = 0 THEN 1 ELSE 0

\* set_switch storing the inverted level (an active-low slip)
set_switch_inverted(ss, ch, st) ==
    IF ch < 0 \/ ch >= config.num_channels THEN ss
    ELSE IF ss.channel[ch] # st
         THEN [channel      |-> [ss.channel EXCEPT ![ch] = Not(st)],
               last_toggle  |-> [ss.last_toggle EXCEPT ![ch] = now],
               toggle_count |-> [ss.toggle_count EXCEPT ![ch] = @ + 1]]
         ELSE ss

\* set_switch without the "!= state" test: stamps and counts every call
set_switch_always(ss, ch, st) ==
    IF ch < 0 \/ ch >= config.num_channels THEN ss
    ELSE [channel      |-> [ss.channel EXCEPT ![ch] = st],
          last_toggle  |-> [ss.last_toggle EXCEPT ![ch] = now],
          toggle_count |-> [ss.toggle_count EXCEPT ![ch] = @ + 1]]

\* set_switch without toggle_count[channel]++
set_switch_nocount(ss, ch, st) ==
    IF ch < 0 \/ ch >= config.num_channels THEN ss
    ELSE IF ss.channel[ch] # st
         THEN [channel      |-> [ss.channel EXCEPT ![ch] = st],
               last_toggle  |-> [ss.last_toggle EXCEPT ![ch] = now],
               toggle_count |-> ss.toggle_count]
         ELSE ss

\* set_switch with the range test off by one: channel > num_channels
set_switch_offbyone(ss, ch, st) ==
    IF ch < 0 \/ ch > config.num_channels \/ ch >= MAX_CHANNELS THEN ss
    ELSE IF ss.channel[ch] # st
         THEN [channel      |-> [ss.channel EXCEPT ![ch] = st],
               last_toggle  |-> [ss.last_toggle EXCEPT ![ch] = now],
               toggle_count |-> [ss.toggle_count EXCEPT ![ch] = @ + 1]]
         ELSE ss

set_switch(ss, ch, st) ==
    IF ch < 0 \/ ch >= config.num_channels THEN ss
    ELSE IF ss.channel[ch] # st
         THEN [channel      |-> [ss.channel EXCEPT ![ch] = st],
               last_toggle  |-> [ss.last_toggle EXCEPT ![ch] = now],
               toggle_count |-> [ss.toggle_count EXCEPT ![ch] = @ + 1]]
         ELSE ss

get_switch(ss, ch) ==
    IF ch < 0 \/ ch >= config.num_channels THEN 0 ELSE ss.channel[ch]

toggle_switch(ss, ch) == set_switch(ss, ch, Not(get_switch(ss, ch)))

\* for (int i = k; i < config.num_channels; i++) set_switch(i, st);
RECURSIVE set_all(_, _, _)
set_all(ss, k, st) ==
    IF k < config.num_channels
    THEN set_all(set_switch(ss, k, st), k + 1, st)
    ELSE ss

execute_command(ss, command, ch) ==
    CASE command = "on"      -> set_switch(ss, ch, 1)
      [] command = "off"     -> set_switch(ss, ch, 0)
      [] command = "toggle"  -> toggle_switch(ss, ch)
      [] command = "status"  -> ss
      [] command = "all_on"  -> set_all(ss, 0, 1)
      [] command = "all_off" -> set_all(ss, 0, 0)
      [] OTHER               -> ss

\* ---- client threads of the state store
Threads == {1, 2}

\* locals of a call: seen = value returned by get_switch, k = all_on's loop
\* index; c0 and wr0 remember toggle_count and wr at the time of the read
Loc0 == [seen |-> 0, k |-> 0, c0 |-> 0, wr0 |-> 0]

StoreIdle ==
    /\ hist = << >>
    /\ mutex = 0
    /\ tpc = [t \in Threads |-> "idle"]
    /\ prog = [t \in Threads |-> << >>]
    /\ ip = [t \in Threads |-> 1]
    /\ loc = [t \in Threads |-> Loc0]
    /\ flips = [c \in Chan |-> 0]
    /\ lastset = [c \in Chan |-> 0]
    /\ wr = [c \in Chan |-> 0]

\* ---- the state before main() runs: zero-initialised statics, running = 1
Init ==
    /\ StoreIdle
    /\ variant \in {"sensor", "switch"}
    /\ pc = "start"
    /\ lpc = "none"
    /\ running = 1
    /\ config = [device_id |-> "", num_channels |-> 0, report_interval |-> 0]
    /\ switch_state = [channel      |-> [c \in Chan |-> 0],
                       last_toggle  |-> [c \in Chan |-> 0],
                       toggle_count |-> [c \in Chan |-> 0]]
    /\ last_report = 0
    /\ cmd = ""
    /\ channel = 0
    /\ cycle = 0
    /\ i = 0
    /\ res = "none"
    /\ now = StartTime
    /\ nread = 0
    /\ post_calls = 0
    /\ put_calls = 0
    /\ exit_code = -1

Alive == pc \notin {"start", "stopped", "crashed"}

\* ---- environment

\* SIGINT/SIGTERM delivered once the handlers are installed
signal_handler ==
    /\ Alive
    /\ running' = 0
    /\ UNCHANGED << variant, pc, lpc, config, switch_state, last_report, cmd,
                    channel, cycle, i, res, now, nread, post_calls, put_calls,
                    exit_code >>
    /\ UNCHANGED storevars

\* a second of wall-clock time passes (only the switch variant reads the clock)
Tick ==
    /\ variant = "switch"
    /\ Alive
    /\ now < StartTime + MaxTicks
    /\ now' = now + 1
    /\ UNCHANGED << variant, pc, lpc, running, config, switch_state,
                    last_report, cmd, channel, cycle, i, res, nread,
                    post_calls, put_calls, exit_code >>
    /\ UNCHANGED storevars

\* ---- startup, both variants

load_config ==
    /\ pc = "start"
    /\ \/ \E id \in DeviceIds, n \in RawChannels, r \in Intervals :
            /\ config' =
                 [device_id       |-> id,
                  num_channels    |->
                      IF variant = "switch"
                      THEN (IF n > MAX_CHANNELS THEN MAX_CHANNELS ELSE n)
                      ELSE 0,
                  report_interval |-> r]
            /\ pc' = "reg_check"
            /\ UNCHANGED exit_code
       \/ \* num_channels absent from the file: the default stays
          \E id \in DeviceIds, r \in Intervals :
            /\ variant = "switch"
            /\ config' = [device_id |-> id,
                          num_channels |-> DEFAULT_NUM_CHANNELS,
                          report_interval |-> r]
            /\ pc' = "reg_check"
            /\ UNCHANGED exit_code
       \/ \* fopen failed: exit(1)
          /\ pc' = "stopped"
          /\ exit_code' = 1
          /\ UNCHANGED config
    /\ UNCHANGED << variant, lpc, running, switch_state, last_report, cmd,
                    channel, cycle, i, res, now, nread, post_calls, put_calls >>
    /\ UNCHANGED storevars

\* startup that registers whatever the configured device_id
reg_check_always ==
    /\ pc = "reg_check"
    /\ pc' = "registering"
    /\ UNCHANGED << variant, lpc, running, config, switch_state, last_report,
                    cmd, channel, cycle, i, res, now, nread, post_calls,
                    put_calls, exit_code >>
    /\ UNCHANGED storevars

\* if (strlen(config.device_id) == 0)
reg_check ==
    /\ pc = "reg_check"
    /\ pc' = IF config.device_id = "" THEN "registering"
             ELSE IF variant = "switch" THEN "starting" ELSE "loop_check"
    /\ UNCHANGED << variant, lpc, running, config, switch_state, last_report,
                    cmd, channel, cycle, i, res, now, nread, post_calls,
                    put_calls, exit_code >>
    /\ UNCHANGED storevars

\* registration whose failure the sensor ignores as the switch does
register_device_nonfatal ==
    /\ pc = "registering"
    /\ post_calls' = post_calls + 1
    /\ \E r \in {"CURLE_OK", "CURLE_ERR"} : res' = r
    /\ pc' = IF variant = "switch" THEN "starting" ELSE "loop_check"
    /\ UNCHANGED << variant, lpc, running, config, switch_state, last_report,
                    cmd, channel, cycle, i, now, nread, put_calls, exit_code >>
    /\ UNCHANGED storevars

\* registration that tries again after a failed POST
register_device_retry ==
    /\ pc = "registering"
    /\ post_calls < 2
    /\ post_calls' = post_calls + 1
    /\ \E r \in {"CURLE_OK", "CURLE_ERR"} :
         /\ res' = r
         /\ pc' = IF r # "CURLE_OK" THEN "registering"
                  ELSE IF variant = "switch" THEN "starting" ELSE "loop_check"
    /\ UNCHANGED << variant, lpc, running, config, switch_state, last_report,
                    cmd, channel, cycle, i, now, nread, put_calls, exit_code >>
    /\ UNCHANGED storevars

\* register_device(): one POST; neither variant reads the response into
\* config.device_id.  The sensor exits 1 on failure, the switch ignores it.
register_device ==
    /\ pc = "registering"
    /\ post_calls' = post_calls + 1
    /\ \E r \in {"CURLE_OK", "CURLE_ERR"} :
         /\ res' = r
         /\ IF variant = "sensor" /\ r # "CURLE_OK"
            THEN pc' = "stopped" /\ exit_code' = 1
            ELSE /\ pc' = IF variant = "switch" THEN "starting" ELSE "loop_check"
                 /\ UNCHANGED exit_code
    /\ UNCHANGED << variant, lpc, running, config, switch_state, last_report,
                    cmd, channel, cycle, i, now, nread, put_calls >>
    /\ UNCHANGED storevars

\* ---- sensor.c: main loop

\* while (running) { cycle++; read sensors; ...
sensor_loop_check ==
    /\ variant = "sensor"
    /\ pc = "loop_check"
    /\ IF running # 0
       THEN /\ cycle < MaxCycles
            /\ cycle' = cycle + 1
            /\ pc' = "report"
       ELSE /\ pc' = "cleanup"
            /\ UNCHANGED cycle
    /\ UNCHANGED << variant, lpc, running, config, switch_state, last_report,
                    cmd, channel, i, res, now, nread, post_calls, put_calls,
                    exit_code >>
    /\ UNCHANGED storevars

\* a report that is retried once within the cycle when it fails
report_metrics_retry ==
    /\ variant = "sensor"
    /\ pc = "report"
    /\ \E r \in {"CURLE_OK", "CURLE_ERR"} :
         /\ res' = r
         /\ put_calls' = IF r = "CURLE_OK" THEN put_calls + 1
                         ELSE put_calls + 2
    /\ i' = 0
    /\ pc' = "sleep_check"
    /\ UNCHANGED << variant, lpc, running, config, switch_state, last_report,
                    cmd, channel, cycle, now, nread, post_calls, exit_code >>
    /\ UNCHANGED storevars

\* a report whose failure ends the sensor's loop
report_metrics_fatal ==
    /\ variant = "sensor"
    /\ pc = "report"
    /\ put_calls' = put_calls + 1
    /\ \E r \in {"CURLE_OK", "CURLE_ERR"} :
         /\ res' = r
         /\ pc' = IF r = "CURLE_OK" THEN "sleep_check" ELSE "cleanup"
    /\ i' = 0
    /\ UNCHANGED << variant, lpc, running, config, switch_state, last_report,
                    cmd, channel, cycle, now, nread, post_calls, exit_code >>
    /\ UNCHANGED storevars

\* report_metrics(temperature, humidity): one PUT, result discarded by main;
\* then the sleep loop starts with i = 0
report_metrics ==
    /\ variant = "sensor"
    /\ pc = "report"
    /\ put_calls' = put_calls + 1
    /\ \E r \in {"CURLE_OK", "CURLE_ERR"} : res' = r
    /\ i' = 0
    /\ pc' = "sleep_check"
    /\ UNCHANGED << variant, lpc, running, config, switch_state, last_report,
                    cmd, channel, cycle, now, nread, post_calls, exit_code >>
    /\ UNCHANGED storevars

\* the interval sleep without "&& running"
sleep_check_whole_interval ==
    /\ variant = "sensor"
    /\ pc = "sleep_check"
    /\ pc' = IF i < config.report_interval THEN "sleeping" ELSE "loop_check"
    /\ UNCHANGED << variant, lpc, running, config, switch_state, last_report,
                    cmd, channel, cycle, i, res, now, nread, post_calls,
                    put_calls, exit_code >>
    /\ UNCHANGED storevars

\* for (...; i < config.report_interval && running; ...)
sleep_check ==
    /\ variant = "sensor"
    /\ pc = "sleep_check"
    /\ pc' = IF i < config.report_interval /\ running # 0
             THEN "sleeping" ELSE "loop_check"
    /\ UNCHANGED << variant, lpc, running, config, switch_state, last_report,
                    cmd, channel, cycle, i, res, now, nread, post_calls,
                    put_calls, exit_code >>
    /\ UNCHANGED storevars

\* sleep(1) returns (the second elapsed, or a handler ran); i++
sleep_return ==
    /\ variant = "sensor"
    /\ pc = "sleeping"
    /\ i' = i + 1
    /\ pc' = "sleep_check"
    /\ UNCHANGED << variant, lpc, running, config, switch_state, last_report,
                    cmd, channel, cycle, res, now, nread, post_calls,
                    put_calls, exit_code >>
    /\ UNCHANGED storevars

\* curl_global_cleanup(); return 0
sensor_cleanup ==
    /\ variant = "sensor"
    /\ pc = "cleanup"
    /\ pc' = "stopped"
    /\ exit_code' = 0
    /\ UNCHANGED << variant, lpc, running, config, switch_state, last_report,
                    cmd, channel, cycle, i, res, now, nread, post_calls,
                    put_calls >>
    /\ UNCHANGED storevars

\* ---- switch.c: listener thread

\* pthread_create(&listener_thread, ...)
start_listener ==
    /\ variant = "switch"
    /\ pc = "starting"
    /\ lpc' = "loop_check"
    /\ pc' = "loop_check"
    /\ UNCHANGED << variant, running, config, switch_state, last_report, cmd,
                    channel, cycle, i, res, now, nread, post_calls, put_calls,
                    exit_code >>
    /\ UNCHANGED storevars

\* while (running) sleep(config.poll_commands_interval); return NULL
listener_loop_check ==
    /\ lpc = "loop_check"
    /\ pc # "crashed"
    /\ lpc' = IF running # 0 THEN "sleeping" ELSE "done"
    /\ UNCHANGED << variant, pc, running, config, switch_state, last_report,
                    cmd, channel, cycle, i, res, now, nread, post_calls,
                    put_calls, exit_code >>
    /\ UNCHANGED storevars

listener_sleep_return ==
    /\ lpc = "sleeping"
    /\ pc # "crashed"
    /\ lpc' = "loop_check"
    /\ UNCHANGED << variant, pc, running, config, switch_state, last_report,
                    cmd, channel, cycle, i, res, now, nread, post_calls,
                    put_calls, exit_code >>
    /\ UNCHANGED storevars

\* ---- switch.c: main loop

\* while (running) { printf("> "); ...
switch_loop_check ==
    /\ variant = "switch"
    /\ pc = "loop_check"
    /\ pc' = IF running # 0 THEN "fgets" ELSE "cleanup"
    /\ UNCHANGED << variant, lpc, running, config, switch_state, last_report,
                    cmd, channel, cycle, i, res, now, nread, post_calls,
                    put_calls, exit_code >>
    /\ UNCHANGED storevars

\* fgets returned NULL: end of input; break
fgets_eof ==
    /\ variant = "switch"
    /\ pc = "fgets"
    /\ pc' = "cleanup"
    /\ UNCHANGED << variant, lpc, running, config, switch_state, last_report,
                    cmd, channel, cycle, i, res, now, nread, post_calls,
                    put_calls, exit_code >>
    /\ UNCHANGED storevars

\* fgets returned a line, which sscanf(input, "%s %d", cmd, &channel) parses.
\*  - an empty line: continue
\*  - a line of blanks: sscanf stores nothing, cmd is read uninitialised
\*    and channel stays 0
\*  - "verb arg" (arg 0 also stands for a missing or non-numeric argument);
\*    a verb of CMD_SIZE characters or more overflows cmd: undefined
\*    behaviour, the process aborts or goes on with the verb unmatched
fgets_line ==
    /\ variant = "switch"
    /\ pc = "fgets"
    /\ nread < MaxLines
    /\ nread' = nread + 1
    /\ \/ /\ pc' = "loop_check"
          /\ UNCHANGED << cmd, channel >>
       \/ \E v \in Verbs :
            /\ cmd' = v
            /\ channel' = 0
            /\ pc' = "dispatch"
       \/ \E v \in Verbs, a \in Args :
            /\ cmd' = v
            /\ channel' = a
            /\ \/ pc' = "dispatch"
               \/ /\ Len(v) >= CMD_SIZE
                  /\ pc' = "crashed"
    /\ UNCHANGED << variant, lpc, running, config, switch_state, last_report,
                    cycle, i, res, now, post_calls, put_calls, exit_code >>
    /\ UNCHANGED storevars

\* quit/exit, status, help, or execute_command(cmd, channel)
dispatch ==
    /\ variant = "switch"
    /\ pc = "dispatch"
    /\ IF cmd \in {"quit", "exit"}
       THEN running' = 0 /\ UNCHANGED switch_state
       ELSE IF cmd \in {"status", "help"}
       THEN UNCHANGED << running, switch_state >>
       ELSE /\ switch_state' = execute_command(switch_state, cmd, channel)
            /\ UNCHANGED running
    /\ pc' = "report_check"
    /\ UNCHANGED << variant, lpc, config, last_report, cmd, channel, cycle, i,
                    res, now, nread, post_calls, put_calls, exit_code >>
    /\ UNCHANGED storevars

\* if (time(NULL) - last_report >= config.report_interval); cmd and channel
\* go out of scope at the end of the iteration
report_check ==
    /\ variant = "switch"
    /\ pc = "report_check"
    /\ IF now - last_report >= config.report_interval
       THEN pc' = "report" /\ UNCHANGED << cmd, channel >>
       ELSE pc' = "loop_check" /\ cmd' = "" /\ channel' = 0
    /\ UNCHANGED << variant, lpc, running, config, switch_state, last_report,
                    cycle, i, res, now, nread, post_calls, put_calls,
                    exit_code >>
    /\ UNCHANGED storevars

\* report_status(): one PUT, result discarded; last_report = time(NULL)
report_status ==
    /\ variant = "switch"
    /\ pc = "report"
    /\ put_calls' = put_calls + 1
    /\ \E r \in {"CURLE_OK", "CURLE_ERR"} : res' = r
    /\ last_report' = now
    /\ pc' = "loop_check"
    /\ cmd' = ""
    /\ channel' = 0
    /\ UNCHANGED << variant, lpc, running, config, switch_state, cycle, i,
                    now, nread, post_calls, exit_code >>
    /\ UNCHANGED storevars

\* pthread_join(listener_thread, NULL) returns once the listener returned;
\* curl_global_cleanup(); return 0
switch_cleanup ==
    /\ variant = "switch"
    /\ pc = "cleanup"
    /\ lpc = "done"
    /\ pc' = "stopped"
    /\ exit_code' = 0
    /\ UNCHANGED << variant, lpc, running, config, switch_state, last_report,
                    cmd, channel, cycle, i, res, now, nread, post_calls,
                    put_calls >>
    /\ UNCHANGED storevars

\* ---- specification

Main ==
    \/ load_config
    \/ reg_check
    \/ register_device
    \/ sensor_loop_check
    \/ report_metrics
    \/ sleep_check
    \/ sleep_return
    \/ sensor_cleanup
    \/ start_listener
    \/ switch_loop_check
    \/ dispatch
    \/ report_check
    \/ report_status
    \/ switch_cleanup

Listener ==
    \/ listener_loop_check
    \/ listener_sleep_return

Next ==
    \/ Main
    \/ Listener
    \/ fgets_line
    \/ fgets_eof
    \/ signal_handler
    \/ Tick

Spec == Init /\ [][Next]_vars

\* The threads are scheduled and every non-blocking step completes; nothing
\* is assumed of the console, of signals or of the clock.
FairSpec == Spec /\ WF_vars(Main) /\ WF_vars(Listener)

\* ---- properties

Valid(c) == c >= 0 /\ c < config.num_channels
KnownVerbs == {"on", "off", "toggle", "status", "all_on", "all_off", "help",
               "quit", "exit"}

\* main() is about to transmit a report (report_status / report_metrics)
InReport == pc = "report"
\* main() is about to call execute_command(cmd, channel)
InExecute == pc = "dispatch" /\ cmd \notin {"quit", "exit", "status", "help"}
\* the step in which execute_command(cmd, channel) runs
ExecuteStep == InExecute /\ pc' = "report_check"

\* C1: no report is sent and no command is executed while config.device_id
\* is empty, in either variant.
C1_NoWorkWhileIdEmpty ==
    (InReport \/ InExecute) => config.device_id # ""

\* the step in which the blocked console read hands main() a command line
ReadStep == pc = "fgets" /\ pc' = "dispatch"

\* C2: in the switch variant, once running has become 0 the console read
\* delivers no further command and no execute_command call happens.
C2_NoCommandAfterShutdown ==
    [][running = 0 => ~(ReadStep \/ ExecuteStep)]_vars

\* C3: whenever the switch variant's main loop has ended (main() is at the
\* join), the process eventually reaches Stopped.
C3_ShutdownCompletes ==
    (variant = "switch" /\ pc = "cleanup") ~> (pc = "stopped")

\* C4: once the shutdown flag is set, the sensor's loop starts no further
\* sleep(1) and no further report: at most the sleep(1) in flight completes.
C4_SensorStopsWithinOneTick ==
    [][(variant = "sensor" /\ running = 0 /\ pc' # pc)
          => pc' \notin {"sleeping", "report"}]_vars

\* C4 witness: the shutdown flag was seen in the middle of the interval
\* sleep and the sleep loop was left with part of the interval remaining.
C4_Witness ==
    /\ variant = "sensor"
    /\ running = 0
    /\ pc = "cleanup"
    /\ i > 0
    /\ i < config.report_interval

\* C5: for every valid channel c and value v in {0,1}, set_switch(c, v)
\* followed by get_switch(c) yields v.
C5_SetThenGet ==
    \A c \in Chan, v \in {0, 1} :
        Valid(c) => get_switch(set_switch(switch_state, c, v), c) = v

\* C5 witness: "on c" was executed on a valid channel that was off, and the
\* channel now reads 1.
C5_Witness ==
    /\ pc = "report_check"
    /\ cmd = "on"
    /\ Valid(channel)
    /\ switch_state.toggle_count[channel] = 1
    /\ get_switch(switch_state, channel) = 1

\* C6: set_switch(c, v) with v the current value of channel c changes
\* nothing: no toggle_count, no last_toggle, no other channel.
C6_SameValueNoOp ==
    \A c \in Chan :
        Valid(c) =>
            set_switch(switch_state, c, switch_state.channel[c]) = switch_state

\* C6 witness: "off c" was executed on a valid channel that was never
\* switched, after the clock had advanced: the call changed nothing.
C6_Witness ==
    /\ pc = "report_check"
    /\ cmd = "off"
    /\ Valid(channel)
    /\ now > StartTime
    /\ switch_state.channel[channel] = 0
    /\ switch_state.toggle_count[channel] = 0
    /\ switch_state.last_toggle[channel] = 0

\* C7: set_switch(c, v) with v different from the current value adds exactly
\* 1 to toggle_count[c] and leaves every other toggle_count as it was.
C7_ChangeCountsOnce ==
    \A c \in Chan, v \in {0, 1} :
        (Valid(c) /\ v # switch_state.channel[c]) =>
            LET after == set_switch(switch_state, c, v)
            IN  /\ after.toggle_count[c] = switch_state.toggle_count[c] + 1
                /\ \A d \in Chan \ {c} :
                     after.toggle_count[d] = switch_state.toggle_count[d]

\* C7 witness: a channel was switched on and off again (count 2) while
\* another channel was never touched.
C7_Witness ==
    /\ pc = "report_check"
    /\ cmd = "off"
    /\ Valid(channel)
    /\ switch_state.channel[channel] = 0
    /\ switch_state.toggle_count[channel] = 2
    /\ \E d \in Chan \ {channel} : Valid(d) /\ switch_state.toggle_count[d] = 0

\* on/off/toggle is about to be applied to a channel outside [0, N)
OutOfRangeCall ==
    /\ pc = "dispatch"
    /\ cmd \in {"on", "off", "toggle"}
    /\ ~Valid(channel)

\* C8: set_switch on a channel outside [0, num_channels) changes no channel's
\* value, last_toggle or toggle_count, and the process lives on.
C8_OutOfRangeUnchanged ==
    [][OutOfRangeCall =>
          /\ switch_state' = switch_state
          /\ pc' \in {"dispatch", "report_check"}
          /\ exit_code' = -1]_vars

\* C8 witness: with channels switched on before, "on"/"off"/"toggle" was
\* executed on a channel out of range and main() went on.
C8_Witness ==
    /\ pc = "report_check"
    /\ cmd \in {"on", "off", "toggle"}
    /\ ~Valid(channel)
    /\ config.num_channels > 0
    /\ \E d \in Chan : switch_state.toggle_count[d] > 0
    /\ exit_code = -1

\* an unknown verb, or on/off/toggle with a channel out of range
Rejected ==
    \/ cmd \notin KnownVerbs
    \/ cmd \in {"on", "off", "toggle"} /\ ~Valid(channel)

\* C9: a command with an unknown verb, or on/off/toggle on a channel out of
\* range, changes no channel state and the command loop goes on to its next
\* iteration.
C9_RejectedCommandContinues ==
    [][/\ (pc = "fgets" /\ pc' \in {"dispatch", "crashed"} /\ Rejected')
            => pc' = "dispatch" /\ switch_state' = switch_state
       /\ (pc = "dispatch" /\ pc' # pc /\ Rejected)
            => pc' = "report_check" /\ switch_state' = switch_state]_vars

\* C10: with a non-empty configured device_id no registration call is ever
\* made and main() never enters register_device.
C10_PresetIdSkipsRegistration ==
    config.device_id # "" => (post_calls = 0 /\ pc # "registering")

\* C10 witness: started with a configured id, the agent is running and has
\* sent a report.
C10_Witness ==
    /\ config.device_id # ""
    /\ put_calls > 0
    /\ post_calls = 0
    /\ running = 1

\* the registration call failed and nothing was transmitted since
RegistrationFailed ==
    post_calls = 1 /\ put_calls = 0 /\ res = "CURLE_ERR"

\* C11: a failed registration stops the sensor at once with exit status 1 and
\* without any report; the switch goes on, starts its listener and its
\* command loop, and never exits with status 1 for it.
C11_RegistrationFailure ==
    /\ (variant = "sensor" /\ RegistrationFailed)
          => (pc = "stopped" /\ exit_code = 1 /\ cycle = 0)
    /\ (variant = "switch" /\ RegistrationFailed)
          => (exit_code # 1 /\ (pc = "starting" \/ lpc # "none"))
    /\ exit_code = 1 => put_calls = 0

\* C11 witness: the switch, its registration failed, waits for a console
\* command with its listener thread started.
C11_Witness ==
    /\ variant = "switch"
    /\ RegistrationFailed
    /\ pc = "fgets"
    /\ lpc \in {"loop_check", "sleeping"}

\* the last transmission was a report and it failed
ReportFailed == put_calls > 0 /\ res = "CURLE_ERR"

ReportPending == IF pc = "report" THEN 1 ELSE 0

\* C13: one transmission attempt per Reporter cycle, failed or not.  In the
\* sensor the PUT calls made equal the cycles begun (less the one about to be
\* made); in the switch every PUT belongs to its own loop iteration, so the
\* PUT calls never exceed the command lines read.
C13_OneAttemptPerCycle ==
    /\ variant = "sensor" => put_calls + ReportPending = cycle
    /\ variant = "switch" => put_calls + ReportPending <= nread
    /\ (pc \in {"stopped", "cleanup"} /\ variant = "sensor")
          => put_calls = cycle

\* C13 witness: the sensor has finished three cycles, one of whose reports
\* failed last, with three PUT calls made.
C13_Witness ==
    /\ variant = "sensor"
    /\ cycle = 3
    /\ put_calls = 3
    /\ res = "CURLE_ERR"
    /\ pc = "stopped"

\* C14: while the agent runs and no shutdown is requested, a report is
\* attempted every report interval whether or not a console command arrives:
\* the switch, waiting at the console with the interval elapsed, gets to a
\* report (unless the agent has left the Running state meanwhile); the sensor,
\* between two reports, gets to the next one.
C14_ReportEveryInterval ==
    /\ (variant = "switch" /\ pc = "fgets" /\ running = 1
          /\ now - last_report >= config.report_interval)
         ~> (pc = "report" \/ running = 0 \/ ~Alive)
    /\ (variant = "sensor" /\ pc \in {"sleep_check", "sleeping", "loop_check"}
          /\ running = 1 /\ cycle < MaxCycles)
         ~> (pc = "report" \/ running = 0)

\* C17: once the configuration is loaded the switch's channel count lies in
\* 1 .. MAX_CHANNELS (configured values outside it, 0 and negatives included,
\* having been clamped).
C17_ChannelCountInRange ==
    (variant = "switch" /\ Alive) => config.num_channels \in 1 .. MAX_CHANNELS

\* ---- switch.c: the console commands alone, on a four-channel switch

MaxCmds == 4
CmdVerbs == {"on", "off", "toggle", "all_on", "all_off"}
\* -1: the line carries no channel (sscanf leaves channel at -1)
CmdArgs == {-1, 2}

\* main() waiting at the console with num_channels at its default
CmdInit ==
    /\ StoreIdle
    /\ variant = "switch"
    /\ pc = "fgets"
    /\ lpc = "loop_check"
    /\ running = 1
    /\ config = [device_id |-> "dev-1", num_channels |-> DEFAULT_NUM_CHANNELS,
                 report_interval |-> MaxInterval]
    /\ switch_state = [channel      |-> [c \in Chan |-> 0],
                       last_toggle  |-> [c \in Chan |-> 0],
                       toggle_count |-> [c \in Chan |-> 0]]
    /\ last_report = 0
    /\ cmd = ""
    /\ channel = 0
    /\ cycle = 0
    /\ i = 0
    /\ res = "none"
    /\ now = StartTime
    /\ nread = 0
    /\ post_calls = 0
    /\ put_calls = 0
    /\ exit_code = -1

\* one console line parsed and executed: sscanf, then execute_command
run_command ==
    /\ Len(hist) < MaxCmds
    /\ \E v \in CmdVerbs, a \in CmdArgs :
         /\ switch_state' = execute_command(switch_state, v, a)
         /\ hist' = Append(hist, << v, a >>)
    /\ UNCHANGED lifevars
    /\ UNCHANGED << mutex, tpc, prog, ip, loc, flips, lastset, wr >>

CmdNext == run_command

CmdSpec == CmdInit /\ [][CmdNext]_vars

Scenario ==
    << << "on", 2 >>, << "toggle", 2 >>, << "off", 2 >>, << "all_on", -1 >> >>

\* C15: on a four-channel switch with every channel off, the commands
\* on 2, toggle 2, off 2, all_on in that order leave all four channels on,
\* toggle_count[2] = 3 and toggle_count = 1 for channels 0, 1 and 3.
C15_Scenario ==
    hist = Scenario =>
        /\ config.num_channels = 4
        /\ switch_state.channel = [c \in Chan |-> 1]
        /\ switch_state.toggle_count = [c \in Chan |-> IF c = 2 THEN 3 ELSE 1]

C15_Witness ==
    /\ hist = Scenario
    /\ switch_state.toggle_count[2] = 3
    /\ \A c \in Chan : switch_state.channel[c] = 1

\* ---- switch.c: the state store called from two threads, statement by statement

ConcChannels == 2
MaxCalls == 1

StoreCalls ==
    {[name |-> "set_switch", ch |-> c, st |-> s] :
        c \in 0 .. (ConcChannels - 1), s \in {0, 1}}
    \cup {[name |-> "toggle_switch", ch |-> c, st |-> 0] :
            c \in 0 .. (ConcChannels - 1)}
    \cup {[name |-> n, ch |-> 0, st |-> 0] :
            n \in {"all_on", "print_status", "report_status"}}

Progs == UNION {[1 .. n -> StoreCalls] : n \in 0 .. MaxCalls}

\* the agent Running with a ConcChannels-channel store; each thread has its calls
ConcInit ==
    /\ variant = "switch"
    /\ pc = "fgets"
    /\ lpc = "loop_check"
    /\ running = 1
    /\ config = [device_id |-> "dev-1", num_channels |-> ConcChannels,
                 report_interval |-> MaxInterval]
    /\ switch_state = [channel      |-> [c \in Chan |-> 0],
                       last_toggle  |-> [c \in Chan |-> 0],
                       toggle_count |-> [c \in Chan |-> 0]]
    /\ last_report = 0
    /\ cmd = ""
    /\ channel = 0
    /\ cycle = 0
    /\ i = 0
    /\ res = "none"
    /\ now = StartTime
    /\ nread = 0
    /\ post_calls = 0
    /\ put_calls = 0
    /\ exit_code = -1
    /\ hist = << >>
    /\ mutex = 0
    /\ tpc = [t \in Threads |-> "idle"]
    /\ prog \in [Threads -> Progs]
    /\ ip = [t \in Threads |-> 1]
    /\ loc = [t \in Threads |-> Loc0]
    /\ flips = [c \in Chan |-> 0]
    /\ lastset = [c \in Chan |-> 0]
    /\ wr = [c \in Chan |-> 0]

\* the call thread t is in
Cur(t) == prog[t][ip[t]]

\* the channel argument of the set_switch/get_switch the thread is in
CurCh(t) ==
    IF Cur(t).name \in {"all_on", "print_status", "report_status"}
    THEN loc[t].k
    ELSE Cur(t).ch

\* an all_on that calls set_switch(i, 0)
CurSt_all_on_clears(t) ==
    CASE Cur(t).name = "set_switch"    -> Cur(t).st
      [] Cur(t).name = "toggle_switch" -> Not(loc[t].seen)
      [] OTHER                         -> 0

\* a toggle_switch that writes back the value it read
CurSt_toggle_same(t) ==
    CASE Cur(t).name = "set_switch"    -> Cur(t).st
      [] Cur(t).name = "toggle_switch" -> loc[t].seen
      [] OTHER                         -> 1

\* the state argument of the set_switch the thread is in:
\* set_switch(c, s); set_switch(channel, !current); set_switch(i, 1)
CurSt(t) ==
    CASE Cur(t).name = "set_switch"    -> Cur(t).st
      [] Cur(t).name = "toggle_switch" -> Not(loc[t].seen)
      [] OTHER                         -> 1

\* a lock that does not wait for its holder
mutex_lock_nowait(t) == mutex' = t

\* pthread_mutex_lock(&state_mutex)
mutex_lock(t) == mutex = 0 /\ mutex' = t

\* pthread_mutex_unlock(&state_mutex)
mutex_unlock(t) == mutex' = 0

\* the call returns to the thread's program
Return(t) ==
    /\ tpc' = [tpc EXCEPT ![t] = "idle"]
    /\ ip' = [ip EXCEPT ![t] = @ + 1]
    /\ loc' = [loc EXCEPT ![t] = Loc0]

\* i++ of a for (i < config.num_channels) loop whose body starts at body;
\* after the last round the call goes on at after, or returns
NextRound(t, body, after) ==
    IF loc[t].k + 1 < config.num_channels
    THEN /\ tpc' = [tpc EXCEPT ![t] = body]
         /\ loc' = [loc EXCEPT ![t].k = @ + 1]
         /\ UNCHANGED ip
    ELSE IF after = "idle"
         THEN Return(t)
         ELSE /\ tpc' = [tpc EXCEPT ![t] = after]
              /\ UNCHANGED << ip, loc >>

\* the thread enters its next call (the loops start at i = 0)
call(t) ==
    /\ tpc[t] = "idle"
    /\ ip[t] <= Len(prog[t])
    /\ IF Cur(t).name \in {"set_switch", "toggle_switch"}
          \/ config.num_channels > 0
       THEN /\ tpc' = [tpc EXCEPT ![t] =
                         CASE Cur(t).name \in {"set_switch", "all_on"} -> "set_lock"
                           [] Cur(t).name = "print_status"             -> "print_lock"
                           [] OTHER                                   -> "get_lock"]
            /\ UNCHANGED << ip, loc >>
       ELSE IF Cur(t).name = "report_status"
            THEN tpc' = [tpc EXCEPT ![t] = "report_totals"] /\ UNCHANGED << ip, loc >>
            ELSE Return(t)
    /\ UNCHANGED lifevars
    /\ UNCHANGED << switch_state, hist, mutex, prog, flips, lastset, wr >>

\* set_switch: the range test, then pthread_mutex_lock
set_switch_lock(t) ==
    /\ tpc[t] = "set_lock"
    /\ IF CurCh(t) < 0 \/ CurCh(t) >= config.num_channels
       THEN /\ Return(t)
            /\ UNCHANGED << mutex, lastset, wr >>
       ELSE /\ mutex_lock(t)
            /\ tpc' = [tpc EXCEPT ![t] = "set_write"]
            /\ lastset' = [lastset EXCEPT ![CurCh(t)] = CurSt(t)]
            /\ wr' = [wr EXCEPT ![CurCh(t)] = @ + 1]
            /\ UNCHANGED << ip, loc >>
    /\ UNCHANGED lifevars
    /\ UNCHANGED << switch_state, hist, prog, flips >>

\* set_switch: if (channel[c] != state) channel[c] = state;
set_switch_write(t) ==
    /\ tpc[t] = "set_write"
    /\ IF switch_state.channel[CurCh(t)] # CurSt(t)
       THEN /\ switch_state' = [switch_state EXCEPT !.channel[CurCh(t)] = CurSt(t)]
            /\ tpc' = [tpc EXCEPT ![t] = "set_count"]
       ELSE /\ tpc' = [tpc EXCEPT ![t] = "set_unlock"]
            /\ UNCHANGED switch_state
    /\ flips' = [c \in Chan |->
                   flips[c] + (IF switch_state'.channel[c] # switch_state.channel[c]
                               THEN 1 ELSE 0)]
    /\ UNCHANGED lifevars
    /\ UNCHANGED << hist, mutex, prog, ip, loc, lastset, wr >>

\* set_switch: last_toggle[c] = time(NULL); toggle_count[c]++;
set_switch_count(t) ==
    /\ tpc[t] = "set_count"
    /\ switch_state' = [switch_state EXCEPT !.last_toggle[CurCh(t)] = now,
                                            !.toggle_count[CurCh(t)] = @ + 1]
    /\ tpc' = [tpc EXCEPT ![t] = "set_unlock"]
    /\ UNCHANGED lifevars
    /\ UNCHANGED << hist, mutex, prog, ip, loc, flips, lastset, wr >>

\* set_switch: pthread_mutex_unlock and return; all_on goes round its loop
set_switch_unlock(t) ==
    /\ tpc[t] = "set_unlock"
    /\ mutex_unlock(t)
    /\ IF Cur(t).name = "all_on"
       THEN NextRound(t, "set_lock", "idle")
       ELSE Return(t)
    /\ UNCHANGED lifevars
    /\ UNCHANGED << switch_state, hist, prog, flips, lastset, wr >>

\* get_switch: the range test (return 0), then pthread_mutex_lock
get_switch_lock(t) ==
    /\ tpc[t] = "get_lock"
    /\ IF CurCh(t) < 0 \/ CurCh(t) >= config.num_channels
       THEN /\ tpc' = [tpc EXCEPT ![t] = "set_lock"]
            /\ loc' = [loc EXCEPT ![t].seen = 0]
            /\ UNCHANGED << mutex, ip >>
       ELSE /\ mutex_lock(t)
            /\ tpc' = [tpc EXCEPT ![t] = "get_read"]
            /\ UNCHANGED << ip, loc >>
    /\ UNCHANGED lifevars
    /\ UNCHANGED << switch_state, hist, prog, flips, lastset, wr >>

\* get_switch: state = channel[c]; pthread_mutex_unlock; return state.
\* toggle_switch goes on to set_switch(channel, !current); report_status
\* appends the value to its message and goes round its loop
get_switch_read(t) ==
    /\ tpc[t] = "get_read"
    /\ mutex_unlock(t)
    /\ IF Cur(t).name = "toggle_switch"
       THEN /\ loc' = [loc EXCEPT ![t] =
                         [seen |-> switch_state.channel[CurCh(t)],
                          k    |-> 0,
                          c0   |-> switch_state.toggle_count[CurCh(t)],
                          wr0  |-> wr[CurCh(t)]]]
            /\ tpc' = [tpc EXCEPT ![t] = "set_lock"]
            /\ UNCHANGED ip
       ELSE NextRound(t, "get_lock", "report_totals")
    /\ UNCHANGED lifevars
    /\ UNCHANGED << switch_state, hist, prog, flips, lastset, wr >>

\* report_status: toggle_count[0] + toggle_count[1] read for the message,
\* with no lock taken
report_status_totals(t) ==
    /\ tpc[t] = "report_totals"
    /\ Return(t)
    /\ UNCHANGED lifevars
    /\ UNCHANGED << switch_state, hist, mutex, prog, flips, lastset, wr >>

\* print_status: pthread_mutex_lock at the top of the loop body
print_status_lock(t) ==
    /\ tpc[t] = "print_lock"
    /\ mutex_lock(t)
    /\ tpc' = [tpc EXCEPT ![t] = "print_read"]
    /\ UNCHANGED lifevars
    /\ UNCHANGED << switch_state, hist, prog, ip, loc, flips, lastset, wr >>

\* print_status: state = channel[i]; count = toggle_count[i]; unlock; printf
print_status_read(t) ==
    /\ tpc[t] = "print_read"
    /\ mutex_unlock(t)
    /\ NextRound(t, "print_lock", "idle")
    /\ UNCHANGED lifevars
    /\ UNCHANGED << switch_state, hist, prog, flips, lastset, wr >>

ConcNext ==
    \E t \in Threads :
        \/ call(t)
        \/ set_switch_lock(t)
        \/ set_switch_write(t)
        \/ set_switch_count(t)
        \/ set_switch_unlock(t)
        \/ get_switch_lock(t)
        \/ get_switch_read(t)
        \/ report_status_totals(t)
        \/ print_status_lock(t)
        \/ print_status_read(t)

ConcSpec == ConcInit /\ [][ConcNext]_vars

\* ---- properties of the state store under concurrent calls

\* thread t made the single call all_on, which has returned
AllOnDone(t) ==
    /\ Len(prog[t]) = 1
    /\ prog[t][1].name = "all_on"
    /\ ip[t] = 2

\* all thread u ever does is one set_switch call (or nothing)
OneExternalSet(u) ==
    \/ prog[u] = << >>
    \/ Len(prog[u]) = 1 /\ prog[u][1].name = "set_switch"

\* u's one call is set_switch(c, 0)
ExternalClear(u, c) ==
    /\ Len(prog[u]) = 1
    /\ prog[u][1] = [name |-> "set_switch", ch |-> c, st |-> 0]

\* no thread is inside set_switch's critical section on channel c
NoWriterIn(c) ==
    \A t \in Threads :
        ~(tpc[t] \in {"set_write", "set_count", "set_unlock"} /\ CurCh(t) = c)

\* C16 as stated: when all_on returns while the other thread's one external
\* set_switch is under way or done, every channel reads 1.
C16_AllOnReadsAllTrue ==
    [][\A t \in Threads : \A u \in Threads \ {t} :
          (/\ prog[t] # << >> /\ ip[t] = 1 /\ ip'[t] = 2
           /\ Cur(t).name = "all_on"
           /\ OneExternalSet(u)
           /\ (tpc[u] # "idle" \/ ip[u] = 2))
          => \A c \in 0 .. (config.num_channels - 1) :
                 switch_state'.channel[c] = 1]_vars

\* C16, amended: once all_on has returned, every channel reads 1 except the
\* one channel c on which the external set_switch(c, 0) took the lock after
\* all_on's own set_switch(c, 1); and each channel, outside a set_switch
\* critical section on it, holds the value of the last set_switch applied.
C16_AllOnThenLastWrite ==
    \A t \in Threads : \A u \in Threads \ {t} :
        (AllOnDone(t) /\ OneExternalSet(u)) =>
            \A c \in 0 .. (config.num_channels - 1) :
                /\ \/ switch_state.channel[c] = 1
                   \/ ExternalClear(u, c) /\ lastset[c] = 0
                /\ NoWriterIn(c) => switch_state.channel[c] = lastset[c]

\* all_on has returned and an interleaved set_switch(0, 0) came last on 0
C16_Witness ==
    /\ AllOnDone(1)
    /\ ExternalClear(2, 0)
    /\ ip[2] = 2
    /\ wr[0] = 2
    /\ switch_state.channel[0] = 0
    /\ switch_state.channel[1] = 1
    /\ switch_state.toggle_count[0] = 2

\* the thread's next statement reads or writes switch_state
Accessing(t) ==
    tpc[t] \in {"set_write", "set_count", "get_read", "print_read", "report_totals"}

\* C18: every read or write of switch_state (channel, last_toggle,
\* toggle_count) is made by a thread that holds state_mutex, the reads that
\* build the status report included.
C18_AccessUnderMutex ==
    \A t \in Threads : Accessing(t) => mutex = t

\* toggle_count[c] is the number of transitions channel c has undergone,
\* unless a set_switch on c stands between its write of the value and its ++
CountsAgree(c) ==
    (\A t \in Threads : ~(tpc[t] = "set_count" /\ CurCh(t) = c))
        => switch_state.toggle_count[c] = flips[c]

\* C19: under every interleaving of concurrent set_switch calls each call is
\* atomic per channel: toggle_count[c] equals the number of value transitions
\* of channel c, it never decreases, and print_status, reading under the
\* lock, never finds a channel's value paired with a toggle_count from
\* before or after that value's transition.
C19_AtomicPerChannel ==
    /\ [](\A c \in Chan : CountsAgree(c))
    /\ [](\A t \in Threads :
             tpc[t] = "print_read" =>
                 /\ switch_state.toggle_count[loc[t].k] = flips[loc[t].k]
                 /\ switch_state.channel[loc[t].k] = flips[loc[t].k] % 2)
    /\ [][\A c \in Chan :
             switch_state'.toggle_count[c] >= switch_state.toggle_count[c]]_vars

\* a set_switch between its two writes while a second set_switch on the
\* same channel waits for the lock
C19_Witness ==
    /\ tpc[1] = "set_count"
    /\ tpc[2] = "set_lock"
    /\ CurCh(1) = CurCh(2)
    /\ mutex = 1

\* thread t made the single call toggle_switch(c), which has returned
ToggleDone(t, c) ==
    /\ Len(prog[t]) = 1
    /\ prog[t][1].name = "toggle_switch"
    /\ prog[t][1].ch = c
    /\ ip[t] = 2

\* a set_switch on channel c holds the lock and has not yet stored its value
Pending(c) ==
    \E t \in Threads : tpc[t] = "set_write" /\ CurCh(t) = c

\* C20: toggle_switch reads in one critical section and writes in another.
\* When no other set_switch entered on the channel between its read and its
\* write, it flips the channel and adds exactly 1 to toggle_count; two
\* concurrent toggles of one channel make one or two transitions; and in
\* every interleaving a channel holds the value of the last set_switch that
\* acquired the lock on it.
C20_ToggleLastWriterWins ==
    /\ \A t \in Threads :
          (/\ tpc[t] = "set_unlock"
           /\ Cur(t).name = "toggle_switch"
           /\ wr[CurCh(t)] = loc[t].wr0 + 1)
          => /\ switch_state.channel[CurCh(t)] = Not(loc[t].seen)
             /\ switch_state.toggle_count[CurCh(t)] = loc[t].c0 + 1
    /\ \A c \in Chan :
          (ToggleDone(1, c) /\ ToggleDone(2, c)) => flips[c] \in {1, 2}
    /\ \A c \in Chan :
          ~Pending(c) => switch_state.channel[c] = lastset[c]

\* both toggles of channel 0 read 0: one transition, the channel ends on
C20_Witness ==
    /\ ToggleDone(1, 0)
    /\ ToggleDone(2, 0)
    /\ flips[0] = 1
    /\ switch_state.toggle_count[0] = 1
    /\ switch_state.channel[0] = 1
    /\ wr[0] = 2

\* ---- the lifecycle of main()

\* the lifecycle state main() is in at position p:
\* 0 Init, 1 Registering, 2 Running, 3 Draining, 4 Stopped (or killed)
Rank(p) ==
    CASE p \in {"start", "reg_check"}   -> 0
      [] p = "registering"              -> 1
      [] p \in {"cleanup"}              -> 3
      [] p \in {"stopped", "crashed"}   -> 4
      [] OTHER                          -> 2

\* C21: the lifecycle only moves forward through Init, Registering, Running,
\* Draining, Stopped and re-enters no state; the registration POST is made at
\* most once, in Registering; and until registration is over neither the
\* listener thread nor a report or command loop iteration has started.
C21_LifecycleForward ==
    /\ [][Rank(pc') >= Rank(pc)]_vars
    /\ [][post_calls' # post_calls
            => (pc = "registering" /\ post_calls = 0 /\ post_calls' = 1)]_vars
    /\ [](Rank(pc) <= 1
            => (lpc = "none" /\ cycle = 0 /\ nread = 0 /\ put_calls = 0))

\* the sensor after Init, Registering, Running, Draining, now Stopped
C21_Witness ==
    /\ variant = "sensor"
    /\ pc = "stopped"
    /\ exit_code = 0
    /\ post_calls = 1
    /\ res = "CURLE_OK"
    /\ cycle = 2
    /\ put_calls = 2
    /\ running = 0

\* C22: in every state reached from all channels 0 through the commands
\* on, off, toggle, all_on, all_off, each channel is 0 or 1 and a channel is
\* 1 exactly when its toggle_count is odd.
C22_ValueIsCountParity ==
    \A c \in Chan :
        /\ switch_state.channel[c] \in {0, 1}
        /\ switch_state.channel[c] = 1 <=> switch_state.toggle_count[c] % 2 = 1

\* channel 2 switched three times and on, channel 0 switched twice and off
C22_Witness ==
    /\ Len(hist) >= 3
    /\ switch_state.toggle_count[2] = 3
    /\ switch_state.channel[2] = 1
    /\ switch_state.toggle_count[0] = 2
    /\ switch_state.channel[0] = 0

====
